---- MODULE Spec2Model ----
(***************************************************************************)
(* Model of the distributed-training core of reframe-mlperf-epcc:          *)
(*   - custom_reduce_hook, the hierarchical gradient reduction, and the    *)
(*     topology main derives for it (ML/ResNet50/Torch/train.py),          *)
(*   - the gradient-accumulation loops (train_step of ResNet50 and the     *)
(*     train loop of DeepCAM),                                             *)
(*   - the Lamb optimizer (ML/BERT_Large/Torch/optimizer/lamb.py): its     *)
(*     constructor, its collectives and its update,                        *)
(*   - GlobalContext (ML/gc.py, ML_HPC/gc.py): its rank-0 decorator, its   *)
(*     singleton construction and its configuration.                       *)
(* The specifications share the variables: SpecHook, SpecTopo, SpecTrain,  *)
(* SpecLamb (the collectives of Lamb), SpecCtor (its constructor),         *)
(* SpecStep (its update), SpecGate (the decorator) and SpecCtx (the        *)
(* configuration); each leaves the other parts' variables at their idle    *)
(* value.                                                                  *)
(***************************************************************************)
EXTENDS Integers, Sequences, FiniteSets

VARIABLES
    world_size,     \* dist.get_world_size()
    taskspernode,   \* ranks per node, derived in main
    bucketIn,       \* hook: what every rank's bucket held when the hook was called
    buffer,         \* hook: bucket.buffer() of every rank
    pc,             \* hook: where every rank's continuation chain stands
    fut,            \* hook: what the returned future resolved to, per rank
    begun,          \* hook: stages a rank has issued
    done,           \* hook: stages that completed at a rank
    reduceDst,      \* hook: dst argument a rank passed to dist.reduce
    bcastSrc,       \* hook: src argument a rank passed to dist.broadcast
    driver,         \* train: which training loop runs
    freq,           \* train: gc["data"]["gradient_accumulation(_freq)"]
    nbatches,       \* train: len(train_data)
    optName,        \* train: gc["opt"]["name"].upper()
    epoch,          \* train: epochs completed
    idx,            \* train: index of the next micro-batch of the epoch
    grad,           \* train/lamb: p.grad of every rank
    pending,        \* train: micro-batches accumulated in grad, not yet stepped
    localSum,       \* train: sum of the local gradients those micro-batches produced
    paths,          \* train: which paths averaged grad since it was last cleared
    lastIdx,        \* train: index of the micro-batch that just ran
    lastOps,        \* train: operations that micro-batch performed, in order
    prevGrad,       \* train: grad before that micro-batch
    lastContrib,    \* train: local gradient that micro-batch produced
    stepsAt,        \* train: indices of this epoch at which opt.step() ran
    consumed,       \* train: how each opt.step() found the gradient
    perform_allreduce, \* lamb: self.perform_allreduce
    initialized,    \* lamb: dist.is_initialized() at construction
    gradKind,       \* lamb: per parameter, whether p.grad is None or a dense tensor
    lambCalls,      \* lamb: calls made so far
    lastCall,       \* lamb: the last call made
    stepComm,       \* lamb: collectives the last step() issued
    lambRaised,     \* lamb: the last call raised
    param,          \* lamb: p.data of every rank
    gradBefore,     \* lamb: grad before the last call
    ctor,           \* lamb: how far the construction of the optimizer got
    hyper,          \* lamb: the constructor's arguments / the group's options
    dtype,          \* lamb: p.data.dtype of every parameter
    state,          \* lamb: self.state[p] of every parameter, this process
    prevState,      \* lamb: state before the last step()
    prevParam,      \* lamb: this process's p.data before the last step()
    lastUpd,        \* lamb: what the last step() did to every parameter
    launch,         \* topology: how the job was launched, and its size argument
    topo,           \* topology: what main derived on every rank
    gcModule,       \* gate: which gc.py is imported (ML or ML_HPC)
    gate,           \* gate: per rank, the last call of a decorated method
    instances,      \* context: SingletonMetaClass._instances[GlobalContext] exists
    instCount,      \* context: instances of GlobalContext created so far
    items,          \* context: the dict items of the instance, gc[key]
    attrs,          \* context: the instance's __dict__, gc.key
    hasAttrs,       \* context: the instance's __dict__ is not empty
    reads,          \* context: configuration files opened so far
    ctxLast,        \* context: the last configuration operation
    ctxCalls        \* context: configuration operations so far

hookVars == <<bucketIn, buffer, pc, fut, begun, done, reduceDst, bcastSrc>>
trainVars == <<driver, freq, nbatches, optName, epoch, idx, pending, localSum,
               paths, lastIdx,
               lastOps, prevGrad, lastContrib, stepsAt, consumed>>
lambVars == <<perform_allreduce, initialized, gradKind, lambCalls, lastCall,
              stepComm,
              lambRaised, param, gradBefore, ctor, hyper, dtype, state,
              prevState, prevParam, lastUpd>>
topoVars == <<launch, topo>>
gateVars == <<gcModule, gate>>
ctxVars == <<instances, instCount, items, attrs, hasAttrs, reads, ctxLast, ctxCalls>>
vars == <<world_size, taskspernode, grad, hookVars, trainVars, lambVars, topoVars,
          gateVars, ctxVars>>

---------------------------------------------------------------------------
(* Bounds *)

MaxWorld == 4       \* largest world_size explored
BufLen == 2         \* elements of a bucket buffer
NumParams == 2      \* parameters of the model
MaxFreq == 4        \* largest gradient accumulation frequency explored
MaxBatches == 6     \* largest len(train_data) explored
MaxEpochs == 2      \* gc["data"]["n_epochs"]
MaxCalls == 3       \* calls on the optimizer explored
MaxSteps == 2       \* step() calls explored with the optimizer's numerics
Scale == 8          \* fixed point: the integer x stands for the real x / Scale
Bf16Quantum == 4    \* spacing of the values a bfloat16 tensor can hold
Fp16Quantum == 2    \* spacing of the values a float16 tensor can hold

(* Scalars are integers; every input is a multiple of Unit, so that the     *)
(* divisions by world_size the code performs are exact.                     *)
RECURSIVE Gcd(_, _)
Gcd(a, b) == IF b = 0 THEN a ELSE Gcd(b, a % b)

RECURSIVE LcmUpTo(_)
LcmUpTo(m) == IF m <= 1 THEN 1 ELSE (LcmUpTo(m - 1) * m) \div Gcd(LcmUpTo(m - 1), m)

Unit == LcmUpTo(MaxWorld) * LcmUpTo(MaxWorld)

None == "none"

---------------------------------------------------------------------------
(* Topology: main, ML/ResNet50/Torch/train.py lines 132-140 *)

Ranks == 0 .. world_size - 1

\* taskspernode = gc.world_size // int(os.environ["SLURM_NNODES"])
TasksPerNode(n, nnodes) == n \div nnodes

\* node = gc.rank // taskspernode
NodeByModulo(r) == r % taskspernode

Node(r) == r \div taskspernode

\* zeros_ranks = [i for i in range(world_size) if i % taskspernode == 0]
zeros_ranks == {i \in Ranks : i % taskspernode = 0}

\* local_ranks = [node*taskspernode + i for i in range(taskspernode)]
local_ranks(r) == {Node(r) * taskspernode + i : i \in 0 .. taskspernode - 1}

\* gc.rank % taskspernode == 0
IsLeader(r) == r % taskspernode = 0

---------------------------------------------------------------------------
(* Tensors and future values.  A value is [kind, data, obj]:               *)
(*   kind "list"   - the [tensor] a collective's future holds              *)
(*   kind "tensor" - a 1-d tensor                                          *)
(*   kind "scalar" - a 0-d tensor (data has one element)                   *)
(*   kind "error"  - the future holds an exception                         *)
(*   kind "pending" - the future has not completed                         *)
(* obj says whose storage it is: "bucket" (bucket.buffer() itself),        *)
(* "view" (a view into it) or "new" (freshly allocated).                   *)

Err == [kind |-> "error", data |-> <<>>, obj |-> None]

\* a future that has not resolved
Pending == [kind |-> "pending", data |-> <<>>, obj |-> None]

WorkValue(t) == [kind |-> "list", data |-> t, obj |-> "bucket"]

TensorValue(t) == [kind |-> "tensor", data |-> t, obj |-> "bucket"]

\* v[0]: the element of a list, the first element of a 1-d tensor,
\* IndexError on a 0-d tensor
Index0(v) ==
    CASE v.kind = "list" -> [kind |-> "tensor", data |-> v.data, obj |-> v.obj]
      [] v.kind = "tensor" /\ Len(v.data) > 0 ->
            [kind |-> "scalar", data |-> <<v.data[1]>>, obj |-> "view"]
      [] OTHER -> Err

\* v / n: a new tensor
TrueDiv(v, n) ==
    IF v.kind \in {"tensor", "scalar"}
    THEN [kind |-> v.kind,
          data |-> [i \in 1 .. Len(v.data) |-> v.data[i] \div n],
          obj |-> "new"]
    ELSE Err

RECURSIVE SumBuffers(_, _)
SumBuffers(S, b) ==
    IF S = {} THEN [i \in 1 .. BufLen |-> 0]
    ELSE LET r == CHOOSE x \in S : TRUE
             rest == SumBuffers(S \ {r}, b)
         IN [i \in 1 .. BufLen |-> b[r][i] + rest[i]]

---------------------------------------------------------------------------
(* custom_reduce_hook, ML/ResNet50/Torch/train.py lines 62-86 *)

\* dist.reduce(tensor, 0, group=local_ranks, async_op=True): dst is a global rank
ReduceDst(r) == 0

\* dist.broadcast(tensor, 0, group=local_ranks): src is a global rank
BroadcastSrc(r) == 0

\* lines 68-71: which continuation _reduce chains on the reduce's future
ReduceContinuationSkipsAllReduce(r) == "_local_broadcast"

ReduceContinuation(r) ==
    IF IsLeader(r) THEN "_all_reduce_zeros" ELSE "_local_broadcast"

\* _dev: fut.value()[0] / gc.world_size
Dev(v) == TrueDiv(Index0(v), world_size)

\* no opt.step() has run yet
NoStep == [grad |-> <<>>, paths |-> {}, nmb |-> -1, localSum |-> <<>>]

HookIdle ==
    /\ bucketIn = <<>> /\ buffer = <<>> /\ pc = <<>> /\ fut = <<>> /\ begun = <<>> /\ done = <<>>
    /\ reduceDst = <<>> /\ bcastSrc = <<>>

TrainIdle ==
    /\ driver = None /\ freq = 1 /\ nbatches = 0 /\ optName = None
    /\ epoch = 0 /\ idx = 0 /\ pending = 0 /\ localSum = <<>> /\ paths = {}
    /\ lastIdx = -1 /\ lastOps = <<>>
    /\ prevGrad = <<>> /\ lastContrib = <<>> /\ stepsAt = {} /\ consumed = NoStep

\* main's topology derivation has not run
NoLaunch == [kind |-> None, n |-> 0]

TopoIdle == launch = NoLaunch /\ topo = <<>>

\* no decorated method has been called
GateIdle == gcModule = None /\ gate = <<>>

\* a configuration: the values of the keys of a config.yaml
NoConfig == [device |-> None, tag |-> None]

\* no configuration operation has run
NoCtxOp == [op |-> None, built |-> FALSE, raised |-> FALSE, reads |-> 0,
            count |-> 0, file |-> NoConfig, arg |-> None]

\* GlobalContext has not been constructed
CtxIdle ==
    /\ instances = FALSE /\ instCount = 0 /\ items = NoConfig /\ attrs = NoConfig
    /\ hasAttrs = FALSE /\ reads = 0 /\ ctxLast = NoCtxOp /\ ctxCalls = 0

\* the optimizer's own state is not looked at
StepIdle ==
    /\ ctor = None /\ hyper = <<>> /\ dtype = <<>> /\ state = <<>>
    /\ prevState = <<>> /\ prevParam = <<>> /\ lastUpd = <<>>

LambIdle ==
    /\ perform_allreduce = FALSE /\ initialized = FALSE /\ gradKind = <<>>
    /\ lambCalls = 0 /\ lastCall = None /\ stepComm = <<>> /\ lambRaised = FALSE
    /\ param = <<>> /\ gradBefore = <<>>
    /\ StepIdle

\* the buckets a rank may hold on entry
InputBuffers ==
    {[i \in 1 .. BufLen |-> Unit * i], [i \in 1 .. BufLen |-> 2 * Unit * (BufLen - i)]}

HookInit ==
    /\ world_size \in 2 .. MaxWorld
    /\ \E nnodes \in 1 .. world_size :
          /\ world_size % nnodes = 0
          /\ taskspernode = TasksPerNode(world_size, nnodes)
    /\ bucketIn \in [Ranks -> InputBuffers]
    /\ buffer = bucketIn
    /\ pc = [r \in Ranks |-> "hook"]
    /\ fut = [r \in Ranks |-> Pending]
    /\ begun = [r \in Ranks |-> {}]
    /\ done = [r \in Ranks |-> {}]
    /\ reduceDst = [r \in Ranks |-> -1]
    /\ bcastSrc = [r \in Ranks |-> -1]
    /\ grad = <<>>
    /\ TrainIdle /\ LambIdle /\ TopoIdle /\ GateIdle /\ CtxIdle

HookFrame ==
    UNCHANGED <<bucketIn, world_size, taskspernode, grad, trainVars, lambVars,
                topoVars, gateVars, ctxVars>>

\* lines 84, 66-67: the hook is entered and _reduce issues the local reduce.
\* dist.reduce raises when dst is not a member of the group.
HookReduce(r) ==
    /\ pc[r] = "hook"
    /\ reduceDst' = [reduceDst EXCEPT ![r] = ReduceDst(r)]
    /\ begun' = [begun EXCEPT ![r] = @ \cup {"reduce"}]
    /\ pc' = [pc EXCEPT ![r] =
                IF ReduceDst(r) \in local_ranks(r) THEN "reduce" ELSE "raised"]
    /\ UNCHANGED <<buffer, fut, done, bcastSrc>>
    /\ HookFrame

\* the reduce on one local group completes: every member has entered it;
\* the sum lands in dst's buffer, the other buffers are left as they were
ReduceComplete(g) ==
    /\ g # {}
    /\ \A r \in g : pc[r] = "reduce" /\ local_ranks(r) = g
    /\ LET dst == ReduceDst(CHOOSE r \in g : TRUE)
       IN buffer' = [buffer EXCEPT ![dst] = SumBuffers(g, buffer)]
    /\ done' = [r \in Ranks |-> IF r \in g THEN done[r] \cup {"reduce"} ELSE done[r]]
    /\ pc' = [r \in Ranks |-> IF r \in g THEN "reduced" ELSE pc[r]]
    /\ UNCHANGED <<fut, begun, reduceDst, bcastSrc>>
    /\ HookFrame

\* lines 73-74: _all_reduce_zeros runs on the reduce's future and issues the
\* all-reduce among the leaders
AllReduceZeros(r) ==
    /\ pc[r] = "reduced"
    /\ ReduceContinuation(r) = "_all_reduce_zeros"
    /\ begun' = [begun EXCEPT ![r] = @ \cup {"all_reduce"}]
    /\ pc' = [pc EXCEPT ![r] = "all_reduce"]
    /\ UNCHANGED <<buffer, fut, done, reduceDst, bcastSrc>>
    /\ HookFrame

\* line 74: .then(_local_broadcast).value() is evaluated while the all-reduce
\* is still in flight: value() of a future that is not completed raises, so
\* the chain and the returned future end with that error.  The all-reduce
\* and its continuation stay scheduled.
ValueBeforeCompletion(r) ==
    /\ pc[r] = "all_reduce"
    /\ fut[r] = Pending
    /\ fut' = [fut EXCEPT ![r] = Err]
    /\ UNCHANGED <<buffer, pc, begun, done, reduceDst, bcastSrc>>
    /\ HookFrame

\* the all-reduce among the leaders completes: every leader holds the sum of
\* the leaders' buffers; its continuation _local_broadcast (lines 76-78)
\* issues the broadcast
AllReduceComplete ==
    /\ \A r \in zeros_ranks : pc[r] = "all_reduce"
    /\ LET total == SumBuffers(zeros_ranks, buffer)
       IN buffer' = [r \in Ranks |-> IF r \in zeros_ranks THEN total ELSE buffer[r]]
    /\ done' = [r \in Ranks |->
                  IF r \in zeros_ranks THEN done[r] \cup {"all_reduce"} ELSE done[r]]
    /\ begun' = [r \in Ranks |->
                  IF r \in zeros_ranks THEN begun[r] \cup {"broadcast"} ELSE begun[r]]
    /\ bcastSrc' = [r \in Ranks |->
                  IF r \in zeros_ranks THEN BroadcastSrc(r) ELSE bcastSrc[r]]
    /\ pc' = [r \in Ranks |-> IF r \in zeros_ranks THEN "broadcast" ELSE pc[r]]
    /\ UNCHANGED <<fut, reduceDst>>
    /\ HookFrame

\* lines 76-78: _local_broadcast runs on the reduce's future and enters the
\* blocking broadcast
LocalBroadcast(r) ==
    /\ pc[r] = "reduced"
    /\ ReduceContinuation(r) = "_local_broadcast"
    /\ begun' = [begun EXCEPT ![r] = @ \cup {"broadcast"}]
    /\ bcastSrc' = [bcastSrc EXCEPT ![r] = BroadcastSrc(r)]
    /\ pc' = [pc EXCEPT ![r] = "broadcast"]
    /\ UNCHANGED <<buffer, fut, done, reduceDst>>
    /\ HookFrame

\* the broadcast on one local group completes: every member has entered it
\* and holds src's buffer
BroadcastComplete(g) ==
    /\ g # {}
    /\ \A r \in g : pc[r] = "broadcast" /\ local_ranks(r) = g
    /\ LET src == BroadcastSrc(CHOOSE r \in g : TRUE)
       IN /\ src \in g
          /\ buffer' = [r \in Ranks |-> IF r \in g THEN buffer[src] ELSE buffer[r]]
    /\ done' = [r \in Ranks |-> IF r \in g THEN done[r] \cup {"broadcast"} ELSE done[r]]
    /\ pc' = [r \in Ranks |-> IF r \in g THEN "returned" ELSE pc[r]]
    /\ UNCHANGED <<fut, begun, reduceDst, bcastSrc>>
    /\ HookFrame

\* What the future that _dev is chained on (line 86) holds once the
\* broadcast has returned.  A non-leader's is _local_broadcast's return, the
\* buffer (line 79); a leader's is _all_reduce_zeros's return (line 74), the
\* [0] of the tensor _local_broadcast returned.
ChainValue(r) ==
    IF ReduceContinuation(r) = "_all_reduce_zeros"
    THEN Index0(TensorValue(buffer[r]))
    ELSE Index0(WorkValue(buffer[r]))

\* lines 81-82, 86: _dev runs on the chain's future and resolves the returned
\* future
DevStep(r) ==
    /\ pc[r] = "returned"
    /\ pc' = [pc EXCEPT ![r] = "end"]
    /\ IF fut[r] = Pending
       THEN /\ fut' = [fut EXCEPT ![r] = Dev(ChainValue(r))]
            /\ done' = [done EXCEPT ![r] =
                          IF Dev(ChainValue(r)).kind = "error" THEN @ ELSE @ \cup {"dev"}]
       ELSE UNCHANGED <<fut, done>>
    /\ UNCHANGED <<buffer, begun, reduceDst, bcastSrc>>
    /\ HookFrame

HookNext ==
    \/ \E r \in Ranks : HookReduce(r)
    \/ \E r \in Ranks : ReduceComplete(local_ranks(r))
    \/ \E r \in Ranks : AllReduceZeros(r)
    \/ \E r \in Ranks : ValueBeforeCompletion(r)
    \/ AllReduceComplete
    \/ \E r \in Ranks : LocalBroadcast(r)
    \/ \E r \in Ranks : BroadcastComplete(local_ranks(r))
    \/ \E r \in Ranks : DevStep(r)

SpecHook == HookInit /\ [][HookNext]_vars

\* what a flat all-reduce followed by a division by world_size yields
FlatAverage ==
    LET total == SumBuffers(Ranks, bucketIn)
    IN [i \in 1 .. BufLen |-> total[i] \div world_size]

\* C1: at every rank the returned future resolves to the sum of all ranks'
\* input buffers divided by world_size, the value of a flat all-reduce
\* followed by the division.
C1_HookEqualsFlatAverage ==
    \A r \in DOMAIN fut :
        fut[r] # Pending => fut[r].kind = "tensor" /\ fut[r].data = FlatAverage

\* C2: per bucket, a rank's local reduce has completed before the leader's
\* all-reduce uses its contribution, a leader's all-reduce has completed
\* before its broadcast begins, and the division is applied at a rank only
\* after the broadcast completed there.
C2_StageOrdering ==
    \A r \in DOMAIN pc :
        /\ "all_reduce" \in begun[r] =>
              \A q \in local_ranks(r) : "reduce" \in done[q]
        /\ (IsLeader(r) /\ "broadcast" \in begun[r]) => "all_reduce" \in done[r]
        /\ "dev" \in done[r] => "broadcast" \in done[r]

\* a run in which all three orderings were exercised: a leader went through
\* the all-reduce and the broadcast, and a rank divided
C2_Witness ==
    /\ \E r \in DOMAIN pc : "dev" \in done[r]
    /\ \E r \in DOMAIN pc :
          IsLeader(r) /\ "all_reduce" \in done[r] /\ "broadcast" \in done[r]

\* C3: the destination of every rank's local reduce, and the source of its
\* local broadcast, is the leader of the rank's own node, global rank
\* node * taskspernode.
C3_ReduceTargetsOwnLeader ==
    \A r \in DOMAIN pc :
        /\ reduceDst[r] # -1 => reduceDst[r] = Node(r) * taskspernode
        /\ bcastSrc[r] # -1 => bcastSrc[r] = Node(r) * taskspernode

\* C4: the returned future resolves only after the broadcast and the
\* normalization, and to the buffer object that was passed in, which then
\* holds the normalized result.
C4_ResolvesToSameBufferNormalized ==
    \A r \in DOMAIN fut :
        fut[r] # Pending =>
            /\ "broadcast" \in done[r]
            /\ fut[r].obj = "bucket"
            /\ fut[r].kind = "tensor"
            /\ fut[r].data = buffer[r]
            /\ buffer[r] = FlatAverage

---------------------------------------------------------------------------
(* Gradients: grad[r][p] is parameter p's .grad on rank r *)

Params == 1 .. NumParams

ZeroGrads == [r \in Ranks |-> [p \in Params |-> 0]]

AddGrads(g, c) == [r \in Ranks |-> [p \in Params |-> g[r][p] + c[r][p]]]

RECURSIVE SumRanks(_, _, _)
SumRanks(S, g, p) ==
    IF S = {} THEN 0
    ELSE LET r == CHOOSE x \in S : TRUE IN g[r][p] + SumRanks(S \ {r}, g, p)

\* DistributedDataParallel's reduction at the end of a synchronized
\* backward: every rank's gradient becomes the mean over the ranks
DDPAverage(g) ==
    [r \in Ranks |-> [p \in Params |-> SumRanks(Ranks, g, p) \div world_size]]

\* the local gradient micro-batch number c produces on every rank
Contribution(c) == [r \in Ranks |-> [p \in Params |-> Unit * c * (r + 1) * p]]

---------------------------------------------------------------------------
(* Lamb, ML/BERT_Large/Torch/optimizer/lamb.py: construction and the        *)
(* communication done by sync_grads and step                                *)

\* line 38: perform_allreduce=False
DefaultPerformAllreduceOn == TRUE

DefaultPerformAllreduce == FALSE

\* lines 52-55: self.distributed
Distributed == initialized /\ world_size > 1

\* lines 65-72, sync_grads on the gradients g of all ranks, parameters from
\* p on: p.grad.data.div_(world_size) then dist.all_reduce(p.grad.data).
\* p.grad.data of a parameter without gradient raises.  The result is
\* [grad, comm, raised]: the gradients, the collectives issued, and whether
\* the call raised.
RECURSIVE SyncGradsFrom(_, _, _)
SyncGradsFrom(p, g, kinds) ==
    IF p > NumParams THEN [grad |-> g, comm |-> <<>>, raised |-> FALSE]
    ELSE IF kinds[p] = None THEN [grad |-> g, comm |-> <<>>, raised |-> TRUE]
    ELSE LET divided == [r \in Ranks |-> [g[r] EXCEPT ![p] = @ \div world_size]]
             reduced == [r \in Ranks |->
                           [g[r] EXCEPT ![p] = SumRanks(Ranks, divided, p)]]
             rest == SyncGradsFrom(p + 1, reduced, kinds)
         IN [grad |-> rest.grad,
             comm |-> <<[op |-> "all_reduce", param |-> p]>> \o rest.comm,
             raised |-> rest.raised]

sync_grads(g, kinds) ==
    IF ~Distributed THEN [grad |-> g, comm |-> <<>>, raised |-> FALSE]
    ELSE SyncGradsFrom(1, g, kinds)

\* lines 3 and 62: the name the module binds to "distance" is turtle's
\* function distance, which has no attribute broadcase
DistanceHasBroadcase == FALSE

\* dist.broadcast(p.data, 0) on parameter p of all ranks
Broadcast0(prm, p) == [r \in Ranks |-> [prm[r] EXCEPT ![p] = prm[0][p]]]

\* lines 58-63, sync_params on the parameters prm of all ranks, from
\* parameter p on: distance.broadcase(p.data, 0).  The attribute lookup
\* raises AttributeError before anything is called.
RECURSIVE SyncParamsFrom(_, _)
SyncParamsFrom(p, prm) ==
    IF p > NumParams THEN [param |-> prm, raised |-> FALSE]
    ELSE IF ~DistanceHasBroadcase THEN [param |-> prm, raised |-> TRUE]
    ELSE SyncParamsFrom(p + 1, Broadcast0(prm, p))

sync_params(prm) ==
    IF ~Distributed THEN [param |-> prm, raised |-> FALSE]
    ELSE SyncParamsFrom(1, prm)

\* line 85: if self.perform_allreduce
StepSyncsAlways == TRUE

StepSyncs == perform_allreduce

\* lines 85-86: the communication step() does before the parameter update
StepComm(g, kinds) ==
    IF StepSyncs THEN sync_grads(g, kinds)
    ELSE [grad |-> g, comm |-> <<>>, raised |-> FALSE]

---------------------------------------------------------------------------
(* The gradient-accumulation loops:                                         *)
(*   "resnet"  - train_step, ML/ResNet50/Torch/train.py lines 24-44, called *)
(*               from the epoch loop, lines 204-254                         *)
(*   "deepcam" - the train loop of ML_HPC/DeepCAM/Torch/train.py,           *)
(*               lines 124-163                                              *)

\* ResNet50 line 132, DeepCAM line 82: the model is wrapped iff world_size > 1
IsDDP == world_size > 1

\* loss.backward() on the model outside no_sync()
Backward == IF IsDDP THEN "backward_sync" ELSE "backward"

\* train_step lines 26-36: backward under model.no_sync() when wrapped
BackwardNoSync == IF IsDDP THEN "backward_nosync" ELSE "backward"

\* train_step lines 38-43
SyncStepOpsClearFirst == <<Backward, "zero_grad", "step">>

SyncStepOps == <<Backward, "step", "zero_grad">>

\* train_step line 25
AccumulatesOffByOne(batch_idx) == batch_idx % freq # 0

Accumulates(batch_idx) == (batch_idx + 1) % freq # 0

\* train_step: the operations of one call, in order
TrainStepOps(batch_idx) ==
    IF Accumulates(batch_idx) THEN <<BackwardNoSync>> ELSE SyncStepOps

\* DeepCAM line 134
DeepCamSteps(i) == ((i + 1) % freq = 0) \/ (i + 1 = nbatches)

\* DeepCAM lines 131-137: the operations of one loop body, in order
DeepCamBodyOps(i) ==
    <<Backward>> \o
    (IF DeepCamSteps(i) THEN <<"step", "zero_grad", "scheduler_step">> ELSE <<>>)

MicroBatchOps(i) ==
    IF driver = "resnet" THEN TrainStepOps(i) ELSE DeepCamBodyOps(i)

\* opt.step(): Lamb communicates as StepComm says; torch's SGD, Adam and
\* AdamW do not communicate.  The step consumes the gradient as it then is.
OptStep(st) ==
    LET comm == IF optName = "LAMB"
                THEN StepComm(st.grad, [p \in Params |-> "dense"])
                ELSE [grad |-> st.grad, comm |-> <<>>, raised |-> FALSE]
        via == IF comm.comm # <<>> THEN st.paths \cup {"sync_grads"} ELSE st.paths
    IN [st EXCEPT !.grad = comm.grad,
                  !.paths = via,
                  !.consumed = [grad |-> comm.grad, paths |-> via,
                                nmb |-> st.pending, localSum |-> st.localSum]]

\* one operation of a micro-batch applied to the training state
ApplyOp(op, st, c) ==
    CASE op \in {"backward", "backward_nosync"} ->
            [st EXCEPT !.grad = AddGrads(st.grad, c),
                       !.localSum = AddGrads(st.localSum, c),
                       !.pending = @ + 1]
      [] op = "backward_sync" ->
            [st EXCEPT !.grad = DDPAverage(AddGrads(st.grad, c)),
                       !.localSum = AddGrads(st.localSum, c),
                       !.paths = @ \cup {"ddp"},
                       !.pending = @ + 1]
      [] op = "step" -> OptStep(st)
      [] op = "zero_grad" ->
            [st EXCEPT !.grad = ZeroGrads, !.localSum = ZeroGrads,
                       !.paths = {}, !.pending = 0]
      [] OTHER -> st

RECURSIVE ApplyOps(_, _, _)
ApplyOps(ops, st, c) ==
    IF ops = <<>> THEN st ELSE ApplyOps(Tail(ops), ApplyOp(Head(ops), st, c), c)

OpsOf(ops) == {ops[k] : k \in DOMAIN ops}

\* ResNet50 lines 156-173 accept SGD and LARS (LARS is not part of the
\* sources; only SGD is modelled); DeepCAM lines 85-92 accept ADAM, ADAMW
\* and LAMB
OptNames(d) == IF d = "resnet" THEN {"SGD"} ELSE {"ADAM", "ADAMW", "LAMB"}

TrainInit ==
    /\ driver \in {"resnet", "deepcam"}
    /\ optName \in OptNames(driver)
    /\ world_size \in 1 .. MaxWorld
    /\ taskspernode = 1
    /\ freq \in 1 .. MaxFreq
    /\ nbatches \in 1 .. MaxBatches
    /\ epoch = 0 /\ idx = 0 /\ pending = 0 /\ paths = {}
    /\ grad = ZeroGrads /\ localSum = ZeroGrads
    /\ lastIdx = -1 /\ lastOps = <<>>
    /\ prevGrad = ZeroGrads /\ lastContrib = ZeroGrads
    /\ stepsAt = {} /\ consumed = NoStep
    \* DeepCAM line 68 initializes the process group, line 90 constructs Lamb
    \* without perform_allreduce
    /\ initialized = TRUE
    /\ perform_allreduce = DefaultPerformAllreduce
    /\ gradKind = <<>> /\ lambCalls = 0 /\ lastCall = None
    /\ stepComm = <<>> /\ lambRaised = FALSE
    /\ param = <<>> /\ gradBefore = <<>>
    /\ StepIdle
    /\ HookIdle /\ TopoIdle /\ GateIdle /\ CtxIdle

\* one iteration of the loop over train_data: ResNet50 lines 210-217 with
\* train_step, DeepCAM lines 129-137
MicroBatch(c) ==
    /\ driver # None
    /\ idx < nbatches
    /\ LET ops == MicroBatchOps(idx)
           st0 == [grad |-> grad, localSum |-> localSum, paths |-> paths,
                   pending |-> pending, consumed |-> consumed]
           st == ApplyOps(ops, st0, Contribution(c))
       IN /\ grad' = st.grad
          /\ localSum' = st.localSum
          /\ paths' = st.paths
          /\ pending' = st.pending
          /\ consumed' = st.consumed
          /\ lastOps' = ops
          /\ stepsAt' = IF "step" \in OpsOf(ops) THEN stepsAt \cup {idx} ELSE stepsAt
    /\ prevGrad' = grad
    /\ lastContrib' = Contribution(c)
    /\ lastIdx' = idx
    /\ idx' = idx + 1
    /\ UNCHANGED <<driver, freq, nbatches, optName, epoch>>
    /\ UNCHANGED <<world_size, taskspernode, hookVars, lambVars, topoVars, gateVars, ctxVars>>

\* the loop over train_data is exhausted and the next epoch begins: the
\* enumerate restarts at 0 (ResNet50 lines 248-253, DeepCAM lines 158-163)
NextEpoch ==
    /\ driver # None
    /\ idx = nbatches
    /\ epoch + 1 < MaxEpochs
    /\ epoch' = epoch + 1
    /\ idx' = 0
    /\ lastIdx' = -1
    /\ lastOps' = <<>>
    /\ stepsAt' = {}
    /\ UNCHANGED <<driver, freq, nbatches, optName, pending, localSum, paths,
                   prevGrad, lastContrib, consumed, grad>>
    /\ UNCHANGED <<world_size, taskspernode, hookVars, lambVars, topoVars, gateVars, ctxVars>>

TrainNext ==
    \/ \E c \in 1 .. 2 : MicroBatch(c)
    \/ NextEpoch

SpecTrain == TrainInit /\ [][TrainNext]_vars

NotSchedulerStep(op) == op # "scheduler_step"

\* C5: in train_step the optimizer step runs during micro-batch i iff
\* (i + 1) % gradient_accumulation_freq = 0; so within an epoch the steps
\* so far ran exactly at the indices j with (j + 1) % freq = 0.
C5_StepIffWindowEnd ==
    (driver = "resnet" /\ lastIdx >= 0) =>
        /\ ("step" \in OpsOf(lastOps)) <=> ((lastIdx + 1) % freq = 0)
        /\ stepsAt = {j \in 0 .. lastIdx : (j + 1) % freq = 0}

\* freq = 4 and indices 0..3: the step ran once, at index 3
C5_Witness ==
    driver = "resnet" /\ freq = 4 /\ lastIdx = 3 /\ stepsAt = {3}

\* C6: at the end of every epoch the optimizer step has run at the last
\* micro-batch, index nbatches - 1, and no accumulated gradient is left
\* unconsumed.
C6_FinalWindowFlushed ==
    (driver # None /\ idx = nbatches) =>
        (nbatches - 1) \in stepsAt /\ pending = 0

\* C7: in a micro-batch with (i + 1) % freq # 0 on a multi-rank run (the
\* last micro-batch of an epoch, which C6 wants flushed, set aside) the
\* backward pass runs with synchronization suppressed and is all that runs,
\* so the local gradient grows by exactly this micro-batch's contribution.
C7_AccumulateIsLocal ==
    (/\ driver # None /\ lastIdx >= 0 /\ (lastIdx + 1) % freq # 0
     /\ lastIdx + 1 < nbatches /\ world_size > 1) =>
        /\ lastOps = <<"backward_nosync">>
        /\ grad = AddGrads(prevGrad, lastContrib)

\* C8: a micro-batch that ends a window ((i + 1) % freq = 0), or that steps
\* at all, runs the backward pass with synchronization enabled, then one
\* optimizer step, then the clearing of the gradients, in that order; the
\* step sees the accumulated window and every gradient is cleared when the
\* next micro-batch begins.
C8_SyncStepOrder ==
    (/\ driver # None /\ lastIdx >= 0
     /\ ((lastIdx + 1) % freq = 0 \/ "step" \in OpsOf(lastOps))) =>
        /\ SelectSeq(lastOps, NotSchedulerStep) = <<Backward, "step", "zero_grad">>
        /\ consumed.nmb >= 1
        /\ grad = ZeroGrads
        /\ pending = 0

C8_Witness ==
    /\ driver # None /\ lastIdx >= 0 /\ (lastIdx + 1) % freq = 0 /\ freq > 1
    /\ world_size > 1
    /\ lastOps[1] = "backward_sync"
    /\ consumed.nmb = freq
    /\ grad = ZeroGrads

---------------------------------------------------------------------------
(* Calls on a Lamb optimizer in any configuration *)

\* the parameters as the ranks initialized them, each rank on its own
InitialParams == [r \in Ranks |-> [p \in Params |-> Unit * (r + 1) * p]]

LambInit ==
    /\ world_size \in 1 .. MaxWorld
    /\ taskspernode = 1
    /\ initialized \in BOOLEAN
    /\ perform_allreduce \in BOOLEAN
    /\ gradKind = [p \in Params |-> None]
    /\ grad = ZeroGrads
    /\ lambCalls = 0 /\ lastCall = None /\ stepComm = <<>> /\ lambRaised = FALSE
    /\ param = InitialParams /\ gradBefore = ZeroGrads
    /\ StepIdle
    /\ TrainIdle /\ HookIdle /\ TopoIdle /\ GateIdle /\ CtxIdle

LambFrame ==
    UNCHANGED <<world_size, taskspernode, perform_allreduce, initialized,
                ctor, hyper, dtype, state, prevState, prevParam, lastUpd,
                hookVars, trainVars, topoVars, gateVars, ctxVars>>

\* loss.backward() of the driver: the parameters in K receive a gradient,
\* accumulated into p.grad
LambBackward(c, K) ==
    /\ gradKind # <<>>
    /\ lambCalls < MaxCalls
    /\ K # {}
    /\ gradKind' = [p \in Params |-> IF p \in K THEN "dense" ELSE gradKind[p]]
    /\ grad' = [r \in Ranks |-> [p \in Params |->
                  IF p \in K THEN grad[r][p] + Contribution(c)[r][p] ELSE grad[r][p]]]
    /\ lambCalls' = lambCalls + 1
    /\ lastCall' = "backward"
    /\ lambRaised' = FALSE
    /\ gradBefore' = grad
    /\ UNCHANGED <<stepComm, param>>
    /\ LambFrame

\* opt.zero_grad(set_to_none=True) of the driver
LambZeroGrad ==
    /\ gradKind # <<>>
    /\ lambCalls < MaxCalls
    /\ gradKind' = [p \in Params |-> None]
    /\ grad' = ZeroGrads
    /\ lambCalls' = lambCalls + 1
    /\ lastCall' = "zero_grad"
    /\ lambRaised' = FALSE
    /\ gradBefore' = grad
    /\ UNCHANGED <<stepComm, param>>
    /\ LambFrame

\* Lamb.step, lines 74-86: the communication it does on the gradients
LambStep ==
    /\ gradKind # <<>>
    /\ lambCalls < MaxCalls
    /\ LET res == StepComm(grad, gradKind)
       IN /\ grad' = res.grad
          /\ stepComm' = res.comm
          /\ lambRaised' = res.raised
    /\ lambCalls' = lambCalls + 1
    /\ lastCall' = "step"
    /\ gradBefore' = grad
    /\ UNCHANGED <<gradKind, param>>
    /\ LambFrame

\* Lamb.sync_grads called by the driver, lines 65-72
LambSyncGrads ==
    /\ gradKind # <<>>
    /\ lambCalls < MaxCalls
    /\ LET res == sync_grads(grad, gradKind)
       IN /\ grad' = res.grad
          /\ lambRaised' = res.raised
    /\ lambCalls' = lambCalls + 1
    /\ lastCall' = "sync_grads"
    /\ gradBefore' = grad
    /\ UNCHANGED <<gradKind, stepComm, param>>
    /\ LambFrame

\* Lamb.sync_params called by the driver, lines 58-63
LambSyncParams ==
    /\ gradKind # <<>>
    /\ lambCalls < MaxCalls
    /\ LET res == sync_params(param)
       IN /\ param' = res.param
          /\ lambRaised' = res.raised
    /\ lambCalls' = lambCalls + 1
    /\ lastCall' = "sync_params"
    /\ gradBefore' = grad
    /\ UNCHANGED <<grad, gradKind, stepComm>>
    /\ LambFrame

LambNext ==
    \/ \E c \in 1 .. 2 : \E K \in SUBSET Params : LambBackward(c, K)
    \/ LambZeroGrad
    \/ LambStep
    \/ LambSyncGrads
    \/ LambSyncParams

SpecLamb == LambInit /\ [][LambNext]_vars

\* the parameters sync_grads reaches: those before the first one without a
\* gradient
RECURSIVE LeadingWithGrad(_, _)
LeadingWithGrad(p, kinds) ==
    IF p > NumParams \/ kinds[p] = None THEN 0
    ELSE 1 + LeadingWithGrad(p + 1, kinds)

\* C9 as stated: no call of step() issues a collective on a gradient.
C9_StepIssuesNoCollective ==
    stepComm = <<>>

\* C9 as amended: step() issues collectives on gradients only when the
\* optimizer was constructed with perform_allreduce and the process group is
\* initialized with world_size > 1; it then all-reduces the gradients of the
\* parameters in turn, up to the first parameter without a gradient.
\* Otherwise it issues none.
C9_StepCollectivesOnlyWhenConfigured ==
    lastCall = "step" =>
        stepComm =
            IF perform_allreduce /\ initialized /\ world_size > 1
            THEN [k \in 1 .. LeadingWithGrad(1, gradKind) |->
                      [op |-> "all_reduce", param |-> k]]
            ELSE <<>>

\* a step() that all-reduced every parameter's gradient
C9_Witness ==
    lastCall = "step" /\ Len(stepComm) = NumParams

\* the mean over the ranks of parameter p's gradient in g
MeanGrad(g, p) == SumRanks(Ranks, g, p) \div world_size

\* C11: a call of sync_grads in which some parameter has a gradient
\* completes; on a run with an initialized process group and world_size > 1
\* it leaves on every rank, for every parameter, the mean of the ranks'
\* gradients, and otherwise it leaves every gradient unchanged.
C11_SyncGradsAverages ==
    (lastCall = "sync_grads" /\ \E q \in Params : gradKind[q] # None) =>
        /\ ~lambRaised
        /\ \A r \in Ranks : \A p \in Params :
              grad[r][p] = IF initialized /\ world_size > 1
                           THEN MeanGrad(gradBefore, p)
                           ELSE gradBefore[r][p]

\* C12: sync_params raises nothing, and on a run with an initialized process
\* group and world_size > 1 it leaves on every rank, for every parameter,
\* the value rank 0 holds.
C12_SyncParamsBroadcasts ==
    lastCall = "sync_params" =>
        /\ ~lambRaised
        /\ (initialized /\ world_size > 1) =>
              \A r \in Ranks : \A p \in Params : param[r][p] = param[0][p]

---------------------------------------------------------------------------
(* Lamb.__init__, lamb.py lines 29-56.  Reals are fixed-point numbers: the   *)
(* integer x stands for x / Scale, so Scale stands for 1.0.                  *)

Half == Scale \div 2

\* line 40: 0.0 <= lr
ValidLr(lr) == 0 <= lr

\* line 42: 0.0 <= eps
ValidEps(eps) == 0 <= eps

\* lines 44 and 46: 0.0 <= betas[i] < 1.0
ValidBetaClosed(b) == 0 <= b /\ b <= Scale

ValidBeta(b) == 0 <= b /\ b < Scale

\* lines 40-56: the outcome of the constructor on the arguments h
Validate(h) ==
    IF ~ValidLr(h.lr) THEN "ValueError"
    ELSE IF ~ValidEps(h.eps) THEN "ValueError"
    ELSE IF ~ValidBeta(h.beta1) THEN "ValueError"
    ELSE IF ~ValidBeta(h.beta2) THEN "ValueError"
    ELSE "constructed"

\* lines 29-39: the arguments a caller may pass
CtorArgs ==
    [lr : {-1, 0, Half}, eps : {-1, 0, 1},
     beta1 : {-1, 0, Half, Scale}, beta2 : {-1, 0, Half, Scale},
     weight_decay : {-1, 0, Half}, adam : BOOLEAN, bias_correction : {TRUE}]

CtorInit ==
    /\ ctor = "args"
    /\ hyper \in CtorArgs
    /\ world_size = 1 /\ taskspernode = 1
    /\ initialized = FALSE /\ perform_allreduce = DefaultPerformAllreduce
    /\ gradKind = <<>> /\ grad = <<>> /\ param = <<>> /\ gradBefore = <<>>
    /\ lambCalls = 0 /\ lastCall = None /\ stepComm = <<>> /\ lambRaised = FALSE
    /\ dtype = <<>> /\ state = <<>>
    /\ prevState = <<>> /\ prevParam = <<>> /\ lastUpd = <<>>
    /\ TrainIdle /\ HookIdle /\ TopoIdle /\ GateIdle /\ CtxIdle

\* Lamb(params, lr, betas, eps, weight_decay, adam, bias_correction)
LambConstruct ==
    /\ ctor = "args"
    /\ ctor' = Validate(hyper)
    /\ lambRaised' = (Validate(hyper) = "ValueError")
    /\ lastCall' = "__init__"
    /\ UNCHANGED <<world_size, taskspernode, grad, hookVars, trainVars, topoVars, gateVars, ctxVars>>
    /\ UNCHANGED <<perform_allreduce, initialized, gradKind, lambCalls, stepComm,
                   param, gradBefore, hyper, dtype, state, prevState,
                   prevParam, lastUpd>>

CtorNext == LambConstruct

SpecCtor == CtorInit /\ [][CtorNext]_vars

\* C15: the constructor fails, with no optimizer state created, iff lr < 0,
\* or eps < 0, or beta1 is outside [0, 1), or beta2 is outside [0, 1); on
\* every other combination it succeeds.
C15_ConstructionFailsIffOutOfRange ==
    lastCall = "__init__" =>
        /\ (ctor = "ValueError") <=>
              \/ hyper.lr < 0
              \/ hyper.eps < 0
              \/ hyper.beta1 < 0 \/ hyper.beta1 >= Scale
              \/ hyper.beta2 < 0 \/ hyper.beta2 >= Scale
        /\ (ctor # "ValueError") => ctor = "constructed"
        /\ state = <<>>

\* beta2 = 1.0, the excluded end of the range, with everything else in
\* range: the constructor raised
C15_Witness ==
    /\ lastCall = "__init__" /\ ctor = "ValueError"
    /\ hyper.lr = 0 /\ hyper.eps = 0 /\ hyper.beta1 = 0 /\ hyper.beta2 = Scale

---------------------------------------------------------------------------
(* Lamb.step, lamb.py lines 74-157, on one process.  Every parameter has    *)
(* one element.  Arithmetic is fixed-point with rounding towards minus      *)
(* infinity; a tensor of a reduced-precision dtype holds multiples of that  *)
(* dtype's quantum only.                                                    *)

FMul(a, b) == (a * b) \div Scale

\* a / b for b > 0
FDiv(a, b) == (a * Scale) \div b

RECURSIVE ISqrtFrom(_, _)
ISqrtFrom(n, k) == IF (k + 1) * (k + 1) > n THEN k ELSE ISqrtFrom(n, k + 1)

\* tensor.sqrt()
FSqrt(a) == ISqrtFrom(a * Scale, 0)

\* b ** n
RECURSIVE FPow(_, _)
FPow(b, n) == IF n = 0 THEN Scale ELSE FMul(b, FPow(b, n - 1))

Quantum(dt) ==
    CASE dt = "bfloat16" -> Bf16Quantum
      [] dt = "float16" -> Fp16Quantum
      [] OTHER -> 1

\* tensor.to(dt), and the rounding of a result stored in a tensor of dtype dt
To(dt, x) == (x \div Quantum(dt)) * Quantum(dt)

\* data.pow(2).sum().sqrt() of a one-element tensor
Norm(x) == FSqrt(FMul(x, x))

\* self.state[p] before line 100 first touches it: an empty dict
NoState ==
    [created |-> FALSE, step |-> 0, exp_avg |-> 0, exp_avg_sq |-> 0,
     moment_dtype |-> None, has_fp32 |-> FALSE, data_fp32 |-> 0,
     has_norms |-> FALSE, weight_norm |-> 0, adam_norm |-> 0, trust_ratio |-> 0]

\* line 92: bf16_param
Bf16ParamAnyReduced(dt) == dt # "float32"

Bf16Param(dt) == dt = "bfloat16"

\* lines 105 and 107: zeros_like(p.data, dtype=torch.float32)
MomentDtype(dt) == "float32"

\* lines 102-110: state initialization of a parameter of dtype dt holding x
InitState(dt, x) ==
    [NoState EXCEPT !.created = TRUE, !.step = 0,
                    !.exp_avg = 0, !.exp_avg_sq = 0,
                    !.moment_dtype = MomentDtype(dt),
                    !.has_fp32 = Bf16Param(dt),
                    !.data_fp32 = IF Bf16Param(dt) THEN x ELSE 0]

\* lines 95-100: the state of a parameter when its sparse gradient is
\* rejected; self.state[p] has not been looked up yet
StateAtSparseRaiseLate(st, dt, x) == IF st.created THEN st ELSE InitState(dt, x)

StateAtSparseRaise(st, dt, x) == st

\* line 118: state["step"] += 1
NextStepCountSame(n) == n

NextStepCount(n) == n + 1

\* lines 137-148: the trust ratio applied, from weight_decay, self.adam and
\* the two norms; divided says whether weight_norm / adam_norm was computed
TrustRatioIgnoresAdam(wd, adam, wn, an) ==
    IF wd = 0 THEN [ratio |-> Scale, divided |-> FALSE]
    ELSE IF wn = 0 \/ an = 0 THEN [ratio |-> Scale, divided |-> FALSE]
    ELSE [ratio |-> FDiv(wn, an), divided |-> TRUE]

TrustRatio(wd, adam, wn, an) ==
    IF wd = 0 THEN [ratio |-> Scale, divided |-> FALSE]
    ELSE IF wn = 0 \/ an = 0 THEN [ratio |-> Scale, divided |-> FALSE]
    ELSE IF adam THEN [ratio |-> Scale, divided |-> TRUE]
    ELSE [ratio |-> FDiv(wn, an), divided |-> TRUE]

\* a parameter the last step() did not update
NoUpd ==
    [touched |-> FALSE, before |-> 0, adam_step |-> 0, trust_ratio |-> 0,
     has_norms |-> FALSE, weight_norm |-> 0, adam_norm |-> 0, divided |-> FALSE]

\* lines 92-155 for one parameter of dtype dt holding x, with dense gradient
\* g and state st, under the options h.  The result is [data, state, upd]:
\* the new p.data, the new state, and what was done.
StepParam(h, dt, x, g, st) ==
    LET bf16_param == Bf16Param(dt)
        st0 == IF st.created THEN st ELSE InitState(dt, x)
        data == IF bf16_param THEN st0.data_fp32 ELSE x
        store == IF bf16_param THEN "float32" ELSE dt
        step == NextStepCount(st0.step)
        exp_avg == To(st0.moment_dtype,
                      FMul(st0.exp_avg, h.beta1) + FMul(g, Scale - h.beta1))
        exp_avg_sq == To(st0.moment_dtype,
                         FMul(st0.exp_avg_sq, h.beta2)
                            + FMul(Scale - h.beta2, FMul(g, g)))
        step_size == h.lr
        exp_avg_hat == IF h.bias_correction
                       THEN FDiv(exp_avg, Scale - FPow(h.beta1, step))
                       ELSE exp_avg
        exp_avg_sq_hat == IF h.bias_correction
                          THEN FDiv(exp_avg_sq, Scale - FPow(h.beta2, step))
                          ELSE exp_avg_sq
        adam0 == FDiv(exp_avg_hat, FSqrt(exp_avg_sq_hat) + h.eps)
        decays == h.weight_decay # 0
        adam_step == IF decays THEN adam0 + FMul(data, h.weight_decay) ELSE adam0
        weight_norm == IF decays THEN Norm(data) ELSE 0
        adam_norm == IF decays THEN Norm(adam_step) ELSE 0
        tr == TrustRatio(h.weight_decay, h.adam, weight_norm, adam_norm)
        newdata == To(store, data + FMul(adam_step, 0 - FMul(step_size, tr.ratio)))
        st1 == [st0 EXCEPT !.step = step,
                           !.exp_avg = exp_avg,
                           !.exp_avg_sq = exp_avg_sq,
                           !.data_fp32 = IF bf16_param THEN newdata ELSE 0,
                           !.has_norms = st0.has_norms \/ decays,
                           !.weight_norm = IF decays THEN weight_norm ELSE @,
                           !.adam_norm = IF decays THEN adam_norm ELSE @,
                           !.trust_ratio = IF decays THEN tr.ratio ELSE @]
    IN [data |-> IF bf16_param THEN To("bfloat16", newdata) ELSE newdata,
        state |-> st1,
        upd |-> [touched |-> TRUE, before |-> data, adam_step |-> adam_step,
                 trust_ratio |-> tr.ratio, has_norms |-> decays,
                 weight_norm |-> weight_norm, adam_norm |-> adam_norm,
                 divided |-> tr.divided]]

\* lines 88-155: the loop over the parameters from p on; acc is
\* [param, state, upd, raised] of this process
RECURSIVE StepFrom(_, _, _, _, _)
StepFrom(p, h, g, kinds, acc) ==
    IF p > NumParams THEN acc
    ELSE IF kinds[p] = None THEN StepFrom(p + 1, h, g, kinds, acc)
    ELSE IF kinds[p] = "sparse"
    THEN [acc EXCEPT !.raised = TRUE,
                     !.state[p] = StateAtSparseRaise(@, dtype[p], acc.param[p])]
    ELSE LET res == StepParam(h, dtype[p], acc.param[p], g[p], acc.state[p])
         IN StepFrom(p + 1, h, g, kinds,
                     [acc EXCEPT !.param[p] = res.data,
                                 !.state[p] = res.state,
                                 !.upd[p] = res.upd])

\* the dtypes of the parameters: every model mixes the three
DtypeList == <<"float32", "bfloat16", "float16">>

DtypesFrom(k) == [p \in Params |-> DtypeList[((p + k) % 3) + 1]]

\* the options of a constructed optimizer; eps is positive, as in the
\* drivers, so that the denominator of line 136 is positive
StepOptions ==
    {h \in [lr : {Half}, eps : {1}, beta1 : {0, Half}, beta2 : {0, Half},
            weight_decay : {0, Half}, adam : BOOLEAN, bias_correction : BOOLEAN] :
        h.beta1 = h.beta2 /\ Validate(h) = "constructed"}

\* what a backward pass may leave: the gradients' value c (in units of 1.0)
\* and which parameters get which kind of gradient
BackwardInputs ==
    {[c |-> 1, kinds |-> [p \in Params |-> "dense"]],
     [c |-> -1, kinds |-> [p \in Params |-> "dense"]],
     [c |-> 0, kinds |-> [p \in Params |-> "dense"]],
     [c |-> 1, kinds |-> [p \in Params |-> IF p = 1 THEN None ELSE "dense"]],
     [c |-> 1, kinds |-> [p \in Params |-> IF p = 1 THEN "sparse" ELSE "dense"]],
     [c |-> -1, kinds |-> [p \in Params |->
                            IF p = NumParams THEN "sparse" ELSE "dense"]]}

StepInit ==
    /\ ctor = "constructed"
    /\ hyper \in StepOptions
    /\ \/ world_size = 1 /\ initialized = FALSE
          /\ perform_allreduce = DefaultPerformAllreduce
       \/ world_size = 2 /\ initialized = TRUE /\ perform_allreduce = TRUE
    /\ taskspernode = 1
    /\ \E k \in 0 .. 2 : dtype = DtypesFrom(k)
    /\ param = [r \in Ranks |-> [p \in Params |->
                  To(dtype[p], IF p = 1 THEN 0 ELSE Scale * p)]]
    /\ gradKind = [p \in Params |-> None]
    /\ grad = ZeroGrads /\ gradBefore = ZeroGrads
    /\ state = [p \in Params |-> NoState]
    /\ prevState = state /\ prevParam = param[0]
    /\ lastUpd = [p \in Params |-> NoUpd]
    /\ lambCalls = 0 /\ lastCall = None /\ stepComm = <<>> /\ lambRaised = FALSE
    /\ TrainIdle /\ HookIdle /\ TopoIdle /\ GateIdle /\ CtxIdle

StepFrame ==
    UNCHANGED <<world_size, taskspernode, perform_allreduce, initialized,
                ctor, hyper, dtype, hookVars, trainVars, topoVars, gateVars, ctxVars>>

\* opt.zero_grad(set_to_none=True) and loss.backward() of the driver: the
\* gradients are replaced; a gradient has its parameter's dtype, and is a
\* multiple of world_size so that sync_grads divides it exactly
StepBackward(c, kinds) ==
    /\ ctor = "constructed"
    /\ lastCall # "backward"
    /\ lambCalls < MaxSteps
    /\ gradKind' = kinds
    /\ grad' = [r \in Ranks |-> [p \in Params |->
                  IF kinds[p] = None THEN 0 ELSE world_size * To(dtype[p], c * Scale)]]
    /\ lastCall' = "backward"
    /\ lambRaised' = FALSE
    /\ gradBefore' = grad
    /\ UNCHANGED <<lambCalls, stepComm, param, state, prevState, prevParam, lastUpd>>
    /\ StepFrame

\* Lamb.step(), lines 74-157
StepCall ==
    /\ ctor = "constructed"
    /\ lastCall = "backward"
    /\ LET comm == StepComm(grad, gradKind)
           acc0 == [param |-> param[0], state |-> state,
                    upd |-> [p \in Params |-> NoUpd], raised |-> FALSE]
           acc == IF comm.raised THEN [acc0 EXCEPT !.raised = TRUE]
                  ELSE StepFrom(1, hyper, comm.grad[0], gradKind, acc0)
       IN /\ grad' = comm.grad
          /\ stepComm' = comm.comm
          /\ param' = [param EXCEPT ![0] = acc.param]
          /\ state' = acc.state
          /\ lastUpd' = acc.upd
          /\ lambRaised' = acc.raised
    /\ prevState' = state
    /\ prevParam' = param[0]
    /\ gradBefore' = grad
    /\ lambCalls' = lambCalls + 1
    /\ lastCall' = "step"
    /\ UNCHANGED gradKind
    /\ StepFrame

StepNext ==
    \/ \E b \in BackwardInputs : StepBackward(b.c, b.kinds)
    \/ StepCall

SpecStep == StepInit /\ [][StepNext]_vars

\* the first parameter with a sparse gradient, NumParams + 1 if there is none
RECURSIVE FirstSparse(_, _)
FirstSparse(p, kinds) ==
    IF p > NumParams \/ kinds[p] = "sparse" THEN p ELSE FirstSparse(p + 1, kinds)

\* the state and the value of parameter p are what they were before the call
Untouched(p) == state[p] = prevState[p] /\ param[0][p] = prevParam[p]

\* C13 as stated: the step counter of a parameter's state starts at 0 when
\* the state is created, and a step() call adds exactly 1 to it if the
\* parameter has a gradient; a parameter without gradient keeps its state
\* and value, and gets no state.
C13_StepCountPerGradient ==
    lastCall = "step" =>
        \A p \in Params :
            IF gradKind[p] # None
            THEN state[p].created /\ state[p].step = prevState[p].step + 1
            ELSE Untouched(p)

\* sync_grads, called from step(), raised: a distributed optimizer with
\* perform_allreduce met a parameter without gradient
SyncRaised ==
    perform_allreduce /\ Distributed /\ \E q \in Params : gradKind[q] = None

\* the parameters a step() call updates: those with a dense gradient that
\* the loop reaches, i.e. sync_grads did not raise and no earlier parameter
\* has a sparse gradient
Processed(p) ==
    gradKind[p] = "dense" /\ p < FirstSparse(1, gradKind) /\ ~SyncRaised

\* C13 as amended: a step() call adds exactly 1 to the counter (0 in a state
\* just created) of every parameter that has a dense gradient and that the
\* call reaches before raising; every other parameter keeps its state and
\* value, and gets no state if it had none.  So the counter never decreases.
C13_StepCountPerProcessedGradient ==
    lastCall = "step" =>
        \A p \in Params :
            IF Processed(p)
            THEN state[p].created /\ state[p].step = prevState[p].step + 1
            ELSE Untouched(p)

\* a parameter stepped for the second time while another, without gradient
\* in both calls, still has no state
C13_Witness ==
    /\ lastCall = "step" /\ ~lambRaised
    /\ \E p \in Params : state[p].step = 2
    /\ \E p \in Params : gradKind[p] = None /\ ~state[p].created

\* C14: a step() call that meets a parameter with a sparse gradient raises,
\* and every parameter with a sparse gradient has exactly the value and the
\* optimizer state (step counter, moments, shadow copy) it had before the
\* call; if it had no state, none was created.
C14_SparseGradientRejected ==
    (lastCall = "step" /\ \E q \in Params : gradKind[q] = "sparse") =>
        /\ lambRaised
        /\ \A p \in Params : gradKind[p] = "sparse" =>
              /\ Untouched(p)
              /\ ~lastUpd[p].touched
              /\ ~prevState[p].created => state[p] = NoState

\* a step() that updated the first parameter and then raised at a sparse
\* gradient of a parameter that had no state yet
C14_Witness ==
    /\ lastCall = "step" /\ lambRaised
    /\ lastUpd[1].touched
    /\ \E p \in Params : gradKind[p] = "sparse" /\ ~state[p].created

\* the tensor a step() updates in place: the shadow copy of a bfloat16
\* parameter, p.data of any other
UpdatedData(p) ==
    IF dtype[p] = "bfloat16" THEN state[p].data_fp32 ELSE param[0][p]

UpdatedDtype(p) == IF dtype[p] = "bfloat16" THEN "float32" ELSE dtype[p]

\* C18: for every parameter a step() updates, the trust ratio applied is
\* exactly 1 when weight_decay = 0, or plain-Adam mode is on, or the norm of
\* the parameter or of the update is zero, and no division by a zero norm is
\* performed; only otherwise is it parameter norm / update norm.  The norms
\* are those of the data before the update and of the decayed Adam step, and
\* the data moves by -lr * ratio * step.
C18_TrustRatioForcedToOne ==
    lastCall = "step" =>
        \A p \in Params : lastUpd[p].touched =>
            LET u == lastUpd[p]
                forced == \/ hyper.weight_decay = 0
                          \/ hyper.adam
                          \/ u.weight_norm = 0
                          \/ u.adam_norm = 0
            IN /\ forced => u.trust_ratio = Scale
               /\ ~forced => u.trust_ratio = FDiv(u.weight_norm, u.adam_norm)
               /\ u.divided => (u.weight_norm # 0 /\ u.adam_norm # 0)
               /\ u.has_norms <=> hyper.weight_decay # 0
               /\ u.has_norms => /\ u.weight_norm = Norm(u.before)
                                 /\ u.adam_norm = Norm(u.adam_step)
               /\ UpdatedData(p) =
                     To(UpdatedDtype(p),
                        u.before + FMul(u.adam_step,
                                        0 - FMul(hyper.lr, u.trust_ratio)))

\* one step() with weight decay, not in plain-Adam mode, in which an
\* all-zero parameter got ratio 1 and another parameter a ratio other than 1
C18_Witness ==
    /\ lastCall = "step" /\ hyper.weight_decay # 0 /\ ~hyper.adam
    /\ \E p \in Params :
          /\ lastUpd[p].touched /\ lastUpd[p].weight_norm = 0
          /\ lastUpd[p].adam_norm # 0 /\ lastUpd[p].trust_ratio = Scale
    /\ \E q \in Params :
          /\ lastUpd[q].touched /\ lastUpd[q].divided
          /\ lastUpd[q].trust_ratio # Scale

\* C19 as stated: a parameter's state holds a full-precision shadow copy iff
\* the parameter is stored in reduced precision.
C19_ShadowIffReducedPrecision ==
    \A p \in Params : state # <<>> /\ state[p].created =>
        (state[p].has_fp32 <=> dtype[p] # "float32")

\* the data a step() found for parameter p: the shadow copy if the state
\* had one, else the parameter itself (up-cast exactly when the shadow is
\* created from it)
DataBefore(p) ==
    IF prevState[p].created /\ prevState[p].has_fp32
    THEN prevState[p].data_fp32
    ELSE prevParam[p]

\* C19 as amended: a parameter's state holds a full-precision shadow copy
\* iff the parameter is stored as bfloat16.  For such a parameter every
\* update is applied to the shadow copy and the stored parameter is the
\* down-cast of the shadow copy; a float16 parameter, like a float32 one,
\* has no shadow copy and is updated in place.  The moments are float32.
C19_ShadowIffBfloat16 ==
    \A p \in Params : state # <<>> /\ state[p].created =>
        /\ state[p].has_fp32 <=> dtype[p] = "bfloat16"
        /\ state[p].moment_dtype = "float32"
        /\ state[p].has_fp32 => param[0][p] = To("bfloat16", state[p].data_fp32)
        /\ (lastCall = "step" /\ lastUpd[p].touched) =>
              lastUpd[p].before = DataBefore(p)

\* a bfloat16 parameter stepped twice whose shadow copy held, before the
\* second step, a value the parameter cannot hold, next to a float16
\* parameter with a state
C19_Witness ==
    /\ lastCall = "step"
    /\ \E p \in Params :
          /\ dtype[p] = "bfloat16" /\ state[p].step = 2 /\ lastUpd[p].touched
          /\ prevState[p].data_fp32 # prevParam[p]
          /\ state[p].data_fp32 # param[0][p]
    /\ \E q \in Params : dtype[q] = "float16" /\ state[q].created

---------------------------------------------------------------------------
(* The topology main derives on every rank, ML/ResNet50/Torch/train.py      *)
(* lines 132-142                                                            *)

\* lines 134-137: LOCAL_WORLD_SIZE under torchelastic, else
\* world_size // SLURM_NNODES
TasksPerNodeOf(l, n) ==
    IF l.kind = "torchelastic" THEN l.n ELSE TasksPerNode(n, l.n)

\* a rank that has not reached line 138
NoTopo == [done |-> FALSE, raised |-> FALSE, node |-> -1,
           zeros_ranks |-> {}, local_ranks |-> {}]

TopoInit ==
    /\ world_size \in 2 .. MaxWorld
    /\ launch \in [kind : {"torchelastic", "slurm"}, n : 1 .. world_size]
    /\ taskspernode = TasksPerNodeOf(launch, world_size)
    /\ topo = [r \in Ranks |-> NoTopo]
    /\ grad = <<>>
    /\ HookIdle /\ TrainIdle /\ LambIdle /\ GateIdle /\ CtxIdle

\* lines 132-142 on rank r: nothing is validated and nothing raises
TopoSetup(r) ==
    /\ topo # <<>>
    /\ ~topo[r].done
    /\ topo' = [topo EXCEPT ![r] =
                  [done |-> TRUE, raised |-> FALSE, node |-> Node(r),
                   zeros_ranks |-> zeros_ranks, local_ranks |-> local_ranks(r)]]
    /\ UNCHANGED <<world_size, taskspernode, grad, launch,
                   hookVars, trainVars, lambVars, gateVars, ctxVars>>

TopoNext == \E r \in Ranks : TopoSetup(r)

SpecTopo == TopoInit /\ [][TopoNext]_vars

\* C16: when world_size is not a multiple of ranks_per_node, setup fails on
\* every rank with a topology error instead of proceeding with groups that
\* omit ranks or name ranks >= world_size.
C16_InconsistentTopologyRejected ==
    \A r \in DOMAIN topo :
        (topo[r].done /\ world_size % taskspernode # 0) =>
            /\ topo[r].raised
            /\ topo[r].local_ranks \subseteq Ranks

\* C17: when ranks_per_node k divides world_size n, rank r's local group is
\* exactly {floor(r/k)*k, ..., floor(r/k)*k + k - 1} and contains r, two
\* ranks' local groups are equal or disjoint and together they cover
\* 0..n-1, and the leader group is exactly {r : r % k = 0}, with exactly one
\* member in every local group.
C17_TopologyDerivation ==
    world_size % taskspernode = 0 =>
        \A r \in DOMAIN topo : topo[r].done =>
            LET k == taskspernode
                base == (r \div k) * k
            IN /\ ~topo[r].raised
               /\ topo[r].local_ranks = base .. (base + k - 1)
               /\ r \in topo[r].local_ranks
               /\ topo[r].local_ranks \subseteq Ranks
               /\ Cardinality(topo[r].local_ranks) = k
               /\ \A q \in DOMAIN topo : topo[q].done =>
                     \/ topo[q].local_ranks = topo[r].local_ranks
                     \/ topo[q].local_ranks \cap topo[r].local_ranks = {}
               /\ topo[r].zeros_ranks = {q \in Ranks : q % k = 0}
               /\ Cardinality(topo[r].zeros_ranks \cap topo[r].local_ranks) = 1

\* four ranks on two nodes, every rank set up: two local groups and two
\* leaders
C17_Witness ==
    /\ launch.kind # None /\ world_size = 4 /\ taskspernode = 2
    /\ \A r \in DOMAIN topo : topo[r].done
    /\ topo[3].local_ranks = {2, 3} /\ topo[3].zeros_ranks = {0, 2}

---------------------------------------------------------------------------
(* Termination of the hierarchical reduction *)

\* C20: the collectives of the hook match - each is entered by every member
\* of its group and by no one else - so the reduction cannot get stuck:
\* whenever no rank can take a further step, every rank's returned future
\* has resolved.
C20_HookNeverStuck ==
    pc # <<>> =>
        \/ ENABLED HookNext
        \/ \A r \in Ranks : fut[r].kind # "pending"

---------------------------------------------------------------------------
(* Accumulation windows across epochs *)

\* C21: every optimizer step consumes gradients accumulated from at most
\* freq micro-batches, all of them from the current epoch: no more than the
\* micro-batches the epoch has run so far.
C21_WindowWithinEpoch ==
    (driver # None /\ lastIdx >= 0 /\ "step" \in OpsOf(lastOps)) =>
        /\ consumed.nmb <= freq
        /\ consumed.nmb <= lastIdx + 1

---------------------------------------------------------------------------
(* _run_on_0 and the methods it decorates, ML/gc.py lines 18-25 and         *)
(* 61-157, ML_HPC/gc.py lines 19-26                                         *)

\* lines 18-25: what the decorator returns.  The only statement of
\* _run_on_0 is the definition of wrapper; "return wrapper" is the last
\* statement of wrapper itself, so the decorator returns None and wrapper is
\* never bound to anything.
RunOn0(func) == None

\* the decorated methods the drivers call, and the sync keyword a call may
\* pass ("absent": the method's own default applies)
GatedMethods == {"start_epoch", "print_0"}

SyncArgs == {"absent", "true", "false"}

\* a rank that has not called a decorated method
NoGate == [called |-> FALSE, method |-> None, sync |-> None, raised |-> FALSE,
           barrier |-> FALSE, body |-> FALSE]

GateInit ==
    /\ world_size \in 1 .. MaxWorld
    /\ taskspernode = 1
    /\ gcModule \in {"ML", "ML_HPC"}
    /\ gate = [r \in Ranks |-> NoGate]
    /\ grad = <<>>
    /\ HookIdle /\ TrainIdle /\ LambIdle /\ TopoIdle /\ CtxIdle

\* gc.method(..., sync=...) on rank r: the class attribute is what the
\* decorator returned, and calling None raises TypeError before a barrier or
\* the method's body is reached
GateCall(r, m, sync) ==
    /\ gate # <<>>
    /\ ~gate[r].called
    /\ gate' = [gate EXCEPT ![r] =
                  [called |-> TRUE, method |-> m, sync |-> sync,
                   raised |-> RunOn0(m) = None,
                   barrier |-> FALSE, body |-> FALSE]]
    /\ UNCHANGED <<world_size, taskspernode, grad, gcModule,
                   hookVars, trainVars, lambVars, topoVars, ctxVars>>

GateNext == \E r \in Ranks : \E m \in GatedMethods : \E sync \in SyncArgs : GateCall(r, m, sync)

SpecGate == GateInit /\ [][GateNext]_vars

\* C22: a decorated method can be called on every rank; its body runs on
\* rank 0 and on no other rank; and a call with sync enabled enters the
\* barrier.
C22_BodyRunsOnRank0Only ==
    \A r \in DOMAIN gate : gate[r].called =>
        /\ ~gate[r].raised
        /\ gate[r].body <=> r = 0
        /\ gate[r].sync = "true" => gate[r].barrier

---------------------------------------------------------------------------
(* GlobalContext, ML/gc.py lines 10-16 and 27-59, and the command-line      *)
(* options of main, ML/ResNet50/Torch/train.py lines 90-105.  A             *)
(* configuration file is the record of its values: device, and tag for any  *)
(* other key.                                                               *)

\* str.lower() on the spellings that occur
Lower(str) ==
    CASE str = "GPU" -> "gpu"
      [] str = "CUDA" -> "cuda"
      [] str = "CPU" -> "cpu"
      [] OTHER -> str

\* the configuration files that may be given
Files == [device : {"cpu", "gpu", "GPU", "cuda"}, tag : {"A", "B"}]

\* the values --device may have; "" is the option's default
CliDevices == {"", "cpu", "gpu", "GPU", "CUDA", "tpu"}

\* lines 39-40 and 58-59: if self["device"].lower() == 'gpu': self["device"] = "cuda"
NormalizeDevice(it) ==
    IF Lower(it.device) = "gpu" THEN [it EXCEPT !.device = "cuda"] ELSE it

\* lines 50-52: the device property
Device == Lower(items.device)

\* train.py lines 100-105, where MPI is not available
Backend == IF Device = "cuda" THEN "nccl" ELSE "gloo"

CtxInit ==
    /\ instances = FALSE /\ instCount = 0
    /\ items = NoConfig /\ attrs = NoConfig /\ hasAttrs = FALSE
    /\ reads = 0 /\ ctxCalls = 0
    /\ ctxLast \in {NoCtxOp}
    /\ world_size = 1 /\ taskspernode = 1 /\ grad = <<>>
    /\ HookIdle /\ TrainIdle /\ LambIdle /\ TopoIdle /\ GateIdle

CtxFrame ==
    UNCHANGED <<world_size, taskspernode, grad, hookVars, trainVars, lambVars,
                topoVars, gateVars>>

\* what an operation found: recorded in ctxLast
CtxOp(op, raised, file, arg) ==
    [op |-> op, built |-> instances, raised |-> raised, reads |-> reads,
     count |-> instCount, file |-> file, arg |-> arg]

\* GlobalContext(path), gc.py lines 13-16 and 34-40; path = NoConfig stands
\* for config_path=None.  An existing instance is returned as it is.  A new
\* instance has an empty __dict__, so __init__ opens the file: open(None)
\* raises TypeError and nothing is registered.
CtxConstruct(path) ==
    /\ ctxCalls < MaxCalls
    /\ ctxCalls' = ctxCalls + 1
    /\ IF instances
       THEN /\ ctxLast' = CtxOp("construct", FALSE, path, None)
            /\ UNCHANGED <<instances, instCount, items, attrs, hasAttrs, reads>>
       ELSE IF path = NoConfig
       THEN /\ ctxLast' = CtxOp("construct", TRUE, path, None)
            /\ UNCHANGED <<instances, instCount, items, attrs, hasAttrs, reads>>
       ELSE /\ ctxLast' = CtxOp("construct", FALSE, path, None)
            /\ instances' = TRUE
            /\ instCount' = instCount + 1
            /\ reads' = reads + 1
            /\ items' = NormalizeDevice(path)
            /\ UNCHANGED <<attrs, hasAttrs>>
    /\ CtxFrame

\* gc.update_config(path), lines 54-59: the file's values go into
\* self.__dict__; the device looked at and rewritten is the dict item
CtxUpdateConfig(path) ==
    /\ ctxCalls < MaxCalls
    /\ instances
    /\ ctxCalls' = ctxCalls + 1
    /\ reads' = reads + 1
    /\ attrs' = path
    /\ hasAttrs' = TRUE
    /\ items' = NormalizeDevice(items)
    /\ ctxLast' = CtxOp("update_config", FALSE, path, None)
    /\ UNCHANGED <<instances, instCount>>
    /\ CtxFrame

\* main's --device option, train.py lines 93-94
CtxDeviceOption(device) ==
    /\ ctxCalls < MaxCalls
    /\ instances
    /\ ctxCalls' = ctxCalls + 1
    /\ items' = IF device # "" /\ Lower(device) \in {"cpu", "gpu", "cuda"}
                THEN [items EXCEPT !.device = Lower(device)]
                ELSE items
    /\ ctxLast' = CtxOp("device_option", FALSE, NoConfig, device)
    /\ UNCHANGED <<instances, instCount, attrs, hasAttrs, reads>>
    /\ CtxFrame

CtxNext ==
    \/ \E path \in Files \cup {NoConfig} : CtxConstruct(path)
    \/ \E path \in Files : CtxUpdateConfig(path)
    \/ \E device \in CliDevices : CtxDeviceOption(device)

SpecCtx == CtxInit /\ [][CtxNext]_vars

\* C23: after any sequence of configuration operations gc.device is never
\* "gpu"; a device requested as gpu, in any letter case, is reported as
\* "cuda" and selects the backend that cuda selects.
C23_DeviceNeverGpu ==
    instances =>
        /\ Device # "gpu"
        /\ (ctxLast.op = "device_option" /\ Lower(ctxLast.arg) = "gpu") =>
              (Device = "cuda" /\ Backend = "nccl")

\* C24: a construction of GlobalContext when an instance exists returns that
\* instance and opens no file; and after update_config(path) every lookup
\* gc[key], and gc.device, gives the value of the file at path.
C24_ReloadReplacesConfiguration ==
    /\ (ctxLast.op = "construct" /\ ctxLast.built) =>
          /\ ~ctxLast.raised
          /\ instCount = ctxLast.count
          /\ reads = ctxLast.reads
    /\ ctxLast.op = "update_config" =>
          /\ items.tag = ctxLast.file.tag
          /\ Device = Lower(NormalizeDevice(ctxLast.file).device)

====
